---------------------------- MODULE Spec2Model ----------------------------
(***************************************************************************)
(* Forecasting pipeline of src/src/forecasting_model.py                    *)
(* (fit_trend_model, forecast_trend, apply_event_impacts, build_scenarios, *)
(* compute_confidence_intervals, run_forecast_pipeline).                   *)
(*                                                                         *)
(* Numbers are exact: a real is a rational <<n, d>> in lowest terms, and a *)
(* forecast value is k + m * 2^q with k, m, q rational, so that the        *)
(* log-linear trend (np.log, OLS, np.exp) is computed exactly.  Logarithms *)
(* are kept in units of ln 2; the positive historical values of the model  *)
(* are powers of two, for which np.log is then an integer.                 *)
(* pandas Series are objects on a heap (baseline.copy() allocates, .loc    *)
(* assignment mutates in place), so aliasing and copying are visible.      *)
(***************************************************************************)
EXTENDS Integers, Sequences, FiniteSets, TLC

VARIABLES
    pc,             \* position inside run_forecast_pipeline ("idle" outside)
    args,           \* the arguments of the running call
    trend_model,    \* the fitted LinearRegression: coef_ and intercept_
    heap,           \* pandas Series objects, by reference
    baseline,       \* reference of the baseline Series (0: unbound)
    with_events,    \* reference of the event-adjusted Series (0: unbound)
    scenarios,      \* dict of references: optimistic, base, pessimistic
    ci,             \* DataFrame of references: lower, upper
    forecast_table, \* the returned table
    error,          \* the exception that ended the call, and the step that raised it
    calls,          \* the caller's record of its calls: arguments and outcome
    \* enrich_data (src/src/data_explore.py)
    ed_pc,          \* position inside enrich_data: the statement and the loop index
    ed_given,       \* the data and impact_links tables as passed by the caller
    data,           \* the local data: the main table, its columns and rows in order
    impact_links,   \* the local impact_links: the links table, columns and rows
    enrichment_log, \* the local enrichment_log: a list of dicts
    max_id,         \* the locals max_obs_id, max_event_id, max_impact_id
    ed_error,       \* the exception that ended the call of enrich_data, if any
    \* summarize_dataset and temporal_coverage (src/src/data_analysis.py)
    da_pc,          \* "idle", "called", "returned" or "raised"
    da_call,        \* the function called and its arguments
    da_result,      \* the table returned or the exception raised
    \* apply_event_impacts_over_time (src/src/event_impact_model.py)
    sim_pc,         \* position inside the function: the statement and the loop index
    sim_args,       \* indicators_df, impact_links_prepared, start_year, end_year
    results         \* the local results: indicator and its series, in insertion order

pipelineVars == <<pc, args, trend_model, heap, baseline, with_events, scenarios, ci,
                  forecast_table, error>>
enrichVars == <<ed_pc, ed_given, data, impact_links, enrichment_log, max_id, ed_error>>
analysisVars == <<da_pc, da_call, da_result>>
impactVars == <<sim_pc, sim_args, results>>

vars == <<pipelineVars, calls, enrichVars, analysisVars, impactVars>>

---------------------------------------------------------------------------
(* Bounds of the model *)

MaxHist == 2        \* rows of the historical table
MaxForecast == 2    \* length of forecast_years
MaxSched == 2       \* length of one event's list of scheduled years

---------------------------------------------------------------------------
(* Exact rational arithmetic *)

Abs(n) == IF n < 0 THEN -n ELSE n

RECURSIVE GCD(_, _)
GCD(a, b) == IF b = 0 THEN a ELSE GCD(b, a % b)

Rat(n, d) ==
    LET g == GCD(Abs(n), Abs(d))
        s == IF d < 0 THEN -1 ELSE 1
    IN  <<(s * n) \div g, (s * d) \div g>>

Zero == <<0, 1>>
One == <<1, 1>>
RInt(n) == <<n, 1>>
RAdd(x, y) ==
    LET g == GCD(x[2], y[2])      \* over the least common denominator
    IN  Rat(x[1] * (y[2] \div g) + y[1] * (x[2] \div g), x[2] * (y[2] \div g))
RNeg(x) == <<-x[1], x[2]>>
RSub(x, y) == RAdd(x, RNeg(y))
RMul(x, y) == Rat(x[1] * y[1], x[2] * y[2])
RDiv(x, y) == Rat(x[1] * y[2], x[2] * y[1])
RLt(x, y) == x[1] * y[2] < y[1] * x[2]
RLe(x, y) == x[1] * y[2] <= y[1] * x[2]
RIsInt(x) == x[2] = 1

RECURSIVE IntPow(_, _)
IntPow(b, e) == IF e = 0 THEN 1 ELSE b * IntPow(b, e - 1)

\* 2^j for an integer j, as a rational
Pow2(j) == IF j >= 0 THEN <<IntPow(2, j), 1>> ELSE <<1, IntPow(2, -j)>>

RECURSIVE RSum(_)
RSum(s) == IF s = <<>> THEN Zero ELSE RAdd(Head(s), RSum(Tail(s)))

---------------------------------------------------------------------------
(* Forecast values: k + m * 2^q.  Normal form: m = 0 implies q = 0, and q  *)
(* is never an integer when m # 0 (2^q is then irrational, so two values   *)
(* with the same q are equal exactly when their k and m are equal).        *)

NumNorm(k, m, q) ==
    IF m = Zero THEN [k |-> k, m |-> Zero, q |-> Zero]
    ELSE IF RIsInt(q) THEN [k |-> RAdd(k, RMul(m, Pow2(q[1]))), m |-> Zero, q |-> Zero]
    ELSE [k |-> k, m |-> m, q |-> q]

NumOfRat(r) == [k |-> r, m |-> Zero, q |-> Zero]

\* x + y, for two values of one row (they share q when both have m # 0)
NAdd(x, y) ==
    NumNorm(RAdd(x.k, y.k), RAdd(x.m, y.m), IF x.m # Zero THEN x.q ELSE y.q)

\* r * x for a rational r
NScale(r, x) == NumNorm(RMul(r, x.k), RMul(r, x.m), x.q)

NSub(x, y) == NAdd(x, NScale(RInt(-1), y))

\* the sign (-1, 0, 1) of 2^(a/b) - n/d for integers a, b > 0, n > 0, d > 0:
\* that of 2^a * d^b - n^b (both sides raised to the power b)
PowSign(a, b, n, d) ==
    LET lhs == IF a >= 0 THEN IntPow(2, a) * IntPow(d, b) ELSE IntPow(d, b)
        rhs == IF a >= 0 THEN IntPow(n, b) ELSE IntPow(2, -a) * IntPow(n, b)
    IN  IF lhs < rhs THEN -1 ELSE IF lhs > rhs THEN 1 ELSE 0

RSign(r) == IF r[1] < 0 THEN -1 ELSE IF r[1] > 0 THEN 1 ELSE 0

\* the sign of the value k + m * 2^q
NSign(x) ==
    IF x.m = Zero THEN RSign(x.k)
    ELSE IF x.k = Zero \/ RSign(x.k) = RSign(x.m) THEN RSign(x.m)
    ELSE LET r == RDiv(RNeg(x.k), x.m)      \* |k| / |m|
         IN  RSign(x.m) * PowSign(x.q[1], x.q[2], r[1], r[2])

\* x < y and x <= y as floats compare
NLt(x, y) == NSign(NSub(x, y)) < 0
NLe(x, y) == NSign(NSub(x, y)) <= 0

---------------------------------------------------------------------------
(* numpy *)

\* the integer j with v = 2^j, for a power of two v >= 1
RECURSIVE Log2(_)
Log2(v) == IF v <= 1 THEN 0 ELSE 1 + Log2(v \div 2)

Finite(r) == [fin |-> TRUE, val |-> r]

\* np.log that lets a non-positive value through as 0
np_log_Masked(v) ==
    [fin |-> TRUE, val |-> IF v[1] > 0 THEN RInt(Log2(v[1])) ELSE Zero]

\* np.log of one value, in units of ln 2: finite for v > 0, -inf for v = 0
\* and nan for v < 0 (numpy warns and goes on)
np_log(v) ==
    IF v[1] > 0 THEN [fin |-> TRUE, val |-> RInt(Log2(v[1]))]
    ELSE [fin |-> FALSE, val |-> Zero]

\* np.exp of a prediction r (in units of ln 2): 2^r
np_exp(r) == NumNorm(Zero, One, r)

---------------------------------------------------------------------------
(* sklearn.linear_model.LinearRegression *)

None == [none |-> TRUE]

\* a regression through the origin (fit_intercept=False)
LinearRegression_fit_NoIntercept(X, y) ==
    LET n == Len(X)
        xs == [i \in 1..n |-> RInt(X[i])]
        Sxx == RSum([i \in 1..n |-> RMul(xs[i], xs[i])])
        Sxy == RSum([i \in 1..n |-> RMul(xs[i], y[i])])
    IN  [coef |-> IF Sxx = Zero THEN Zero ELSE RDiv(Sxy, Sxx), intercept |-> Zero]

\* LinearRegression.fit on one feature: ordinary least squares with an
\* intercept.  The data are centred and solved by least squares; a feature
\* without variance gets the minimum-norm coefficient 0.
LinearRegression_fit(X, y) ==
    LET n == Len(X)
        xs == [i \in 1..n |-> RInt(X[i])]
        mean_x == RDiv(RSum(xs), RInt(n))
        mean_y == RDiv(RSum(y), RInt(n))
        dx == [i \in 1..n |-> RSub(xs[i], mean_x)]
        dy == [i \in 1..n |-> RSub(y[i], mean_y)]
        Sxx == RSum([i \in 1..n |-> RMul(dx[i], dx[i])])
        Sxy == RSum([i \in 1..n |-> RMul(dx[i], dy[i])])
        coef == IF Sxx = Zero THEN Zero ELSE RDiv(Sxy, Sxx)
    IN  [coef |-> coef, intercept |-> RSub(mean_y, RMul(coef, mean_x))]

\* LinearRegression.predict for one year
LinearRegression_predict(model, year) ==
    RAdd(RMul(model.coef, RInt(year)), model.intercept)

---------------------------------------------------------------------------
(* forecasting_model.py *)

\* a fit that swallows the failures of step 1 and returns a flat model
fit_trend_model_Unvalidated(df, year_col, value_col, log_transform) ==
    [exc |-> "none", model |-> [coef |-> Zero, intercept |-> Zero]]

\* fit_trend_model: the exception raised ("none": no exception) and the
\* fitted model.  df[[year_col]] and df[value_col] raise KeyError for a
\* missing column; fit validates its input and raises ValueError for a
\* table without rows and for a non-finite target.
fit_trend_model(df, year_col, value_col, log_transform) ==
    IF year_col \notin df.columns \/ value_col \notin df.columns
    THEN [exc |-> "KeyError", model |-> None]
    ELSE
        LET n == Len(df.rows)
            X == [i \in 1..n |-> df.rows[i].year]
            raw == [i \in 1..n |-> RInt(df.rows[i].value)]
            y == IF log_transform
                 THEN [i \in 1..n |-> np_log(raw[i])]
                 ELSE [i \in 1..n |-> Finite(raw[i])]
        IN  IF n = 0 \/ \E i \in 1..n : ~y[i].fin
            THEN [exc |-> "ValueError", model |-> None]
            ELSE [exc |-> "none",
                  model |-> LinearRegression_fit(X, [i \in 1..n |-> y[i].val])]

\* forecast_trend: predict validates its input and raises ValueError for an
\* empty list of years; the Series is indexed by the years as given.
forecast_trend(model, years, log_transform) ==
    IF years = <<>>
    THEN [exc |-> "ValueError", series |-> None]
    ELSE
        LET y_pred == [i \in 1..Len(years) |-> LinearRegression_predict(model, years[i])]
        IN  [exc |-> "none",
             series |-> [index |-> years,
                         values |-> [i \in 1..Len(years) |->
                                        IF log_transform THEN np_exp(y_pred[i])
                                        ELSE NumOfRat(y_pred[i])]]]

\* the loop without its `if y in adjusted.index` guard
InIndex_Always(y, index) == TRUE

\* `y in adjusted.index`
InIndex(y, index) == \E i \in 1..Len(index) : index[i] = y

\* adjusted.loc[y] += delta: reads the value at label y (KeyError when the
\* label is missing) and writes the sum back in place
LocAdd(series, y, delta) ==
    IF \A i \in 1..Len(series.index) : series.index[i] # y
    THEN [exc |-> "KeyError", series |-> series]
    ELSE [exc |-> "none",
          series |-> [series EXCEPT !.values =
                        [i \in 1..Len(series.values) |->
                            IF series.index[i] = y
                            THEN NAdd(series.values[i], NumOfRat(delta))
                            ELSE series.values[i]]]]

\* the inner loop `for y in years: if y in adjusted.index: ...`
RECURSIVE ApplyYears(_, _, _)
ApplyYears(st, years, delta) ==
    IF years = <<>> \/ st.exc # "none" THEN st
    ELSE IF InIndex(Head(years), st.series.index)
         THEN ApplyYears(LocAdd(st.series, Head(years), delta), Tail(years), delta)
         ELSE ApplyYears(st, Tail(years), delta)

\* event_schedule.get(event, [])
ScheduleGet(event_schedule, event) ==
    IF event \in DOMAIN event_schedule THEN event_schedule[event] ELSE <<>>

\* an event without a schedule entry applied to every year of the index
\* (event_schedule.get(event, list(adjusted.index)))
RECURSIVE ApplyEvents_DefaultAllYears(_, _, _, _)
ApplyEvents_DefaultAllYears(st, items, event_schedule, scenario_multiplier) ==
    IF items = <<>> \/ st.exc # "none" THEN st
    ELSE ApplyEvents_DefaultAllYears(
            ApplyYears(st,
                       IF Head(items).event \in DOMAIN event_schedule
                       THEN event_schedule[Head(items).event]
                       ELSE st.series.index,
                       RMul(Head(items).impact, scenario_multiplier)),
            Tail(items), event_schedule, scenario_multiplier)

\* the outer loop `for event, impact in event_impacts.items()`
RECURSIVE ApplyEvents(_, _, _, _)
ApplyEvents(st, items, event_schedule, scenario_multiplier) ==
    IF items = <<>> \/ st.exc # "none" THEN st
    ELSE ApplyEvents(
            ApplyYears(st, ScheduleGet(event_schedule, Head(items).event),
                       RMul(Head(items).impact, scenario_multiplier)),
            Tail(items), event_schedule, scenario_multiplier)

\* apply_event_impacts without the copy: adjusted = baseline
apply_event_impacts_InPlace(h, base_ref, event_impacts, event_schedule, scenario_multiplier) ==
    LET st == ApplyEvents([exc |-> "none", series |-> h[base_ref]], event_impacts,
                          event_schedule, scenario_multiplier)
    IN  [exc |-> st.exc, heap |-> [h EXCEPT ![base_ref] = st.series], ref |-> base_ref]

\* apply_event_impacts that adds the plain impact (adjusted.loc[y] += impact)
apply_event_impacts_IgnoresMultiplier(h, base_ref, event_impacts, event_schedule, scenario_multiplier) ==
    LET copy == [exc |-> "none", series |-> h[base_ref]]
        st == ApplyEvents(copy, event_impacts, event_schedule, One)
    IN  [exc |-> st.exc, heap |-> Append(h, st.series), ref |-> Len(h) + 1]

\* apply_event_impacts on the heap: adjusted = baseline.copy() is a new
\* object, the loops mutate it, and its reference is returned
apply_event_impacts(h, base_ref, event_impacts, event_schedule, scenario_multiplier) ==
    LET copy == [exc |-> "none", series |-> h[base_ref]]
        st == ApplyEvents(copy, event_impacts, event_schedule, scenario_multiplier)
    IN  [exc |-> st.exc, heap |-> Append(h, st.series), ref |-> Len(h) + 1]

OptimisticFactor == Rat(12, 10)
PessimisticFactor == Rat(7, 10)

\* scaling the adjusted level instead of the event delta
ScaleDelta_Level(b, w, factor) ==
    [index |-> b.index,
     values |-> [i \in 1..Len(b.values) |-> NScale(factor, w.values[i])]]

\* baseline + factor * (with_events - baseline), element by element (the two
\* Series have the same index, so pandas does not realign them)
ScaleDelta(b, w, factor) ==
    [index |-> b.index,
     values |-> [i \in 1..Len(b.values) |->
                    NAdd(b.values[i], NScale(factor, NSub(w.values[i], b.values[i])))]]

\* build_scenarios with the baseline as the base scenario
build_scenarios_BaseIsBaseline(h, base_ref, we_ref) ==
    [heap |-> h \o <<ScaleDelta(h[base_ref], h[we_ref], OptimisticFactor),
                     ScaleDelta(h[base_ref], h[we_ref], PessimisticFactor)>>,
     dict |-> [optimistic |-> Len(h) + 1, base |-> base_ref, pessimistic |-> Len(h) + 2]]

\* build_scenarios: optimistic and pessimistic are new Series, base is the
\* with_events object itself
build_scenarios(h, base_ref, we_ref) ==
    [heap |-> h \o <<ScaleDelta(h[base_ref], h[we_ref], OptimisticFactor),
                     ScaleDelta(h[base_ref], h[we_ref], PessimisticFactor)>>,
     dict |-> [optimistic |-> Len(h) + 1, base |-> we_ref, pessimistic |-> Len(h) + 2]]

\* a lower bound taken on the magnitude: forecast - w * abs(forecast)
Lower_OnMagnitude(forecast, w) ==
    [forecast EXCEPT !.values =
        [i \in 1..Len(forecast.values) |->
            IF NSign(forecast.values[i]) < 0
            THEN NScale(RAdd(One, w), forecast.values[i])
            ELSE NScale(RSub(One, w), forecast.values[i])]]

\* forecast * (1 - w) and forecast * (1 + w)
Lower(forecast, w) ==
    [forecast EXCEPT !.values =
        [i \in 1..Len(forecast.values) |-> NScale(RSub(One, w), forecast.values[i])]]
Upper(forecast, w) ==
    [forecast EXCEPT !.values =
        [i \in 1..Len(forecast.values) |-> NScale(RAdd(One, w), forecast.values[i])]]

\* compute_confidence_intervals: a DataFrame of two new Series
compute_confidence_intervals(h, ref, uncertainty_width) ==
    [heap |-> h \o <<Lower(h[ref], uncertainty_width), Upper(h[ref], uncertainty_width)>>,
     frame |-> [lower |-> Len(h) + 1, upper |-> Len(h) + 2]]

Columns ==
    <<"year", "baseline", "with_events", "optimistic", "base", "pessimistic",
      "ci_lower", "ci_upper">>

\* a table whose year column is sorted(forecast_years)
AssembleTable_SortedYears(h, years, b, w, scen, frame) ==
    [columns |-> Columns,
     rows |-> [i \in 1..Len(years) |->
                [year |-> SortSeq(years, LAMBDA x, y : x < y)[i],
                 baseline |-> h[b].values[i],
                 with_events |-> h[w].values[i],
                 optimistic |-> h[scen.optimistic].values[i],
                 base |-> h[scen.base].values[i],
                 pessimistic |-> h[scen.pessimistic].values[i],
                 ci_lower |-> h[frame.lower].values[i],
                 ci_upper |-> h[frame.upper].values[i]]]]

\* the DataFrame run_forecast_pipeline assembles from forecast_years and the
\* .values of the Series
AssembleTable(h, years, b, w, scen, frame) ==
    [columns |-> Columns,
     rows |-> [i \in 1..Len(years) |->
                [year |-> years[i],
                 baseline |-> h[b].values[i],
                 with_events |-> h[w].values[i],
                 optimistic |-> h[scen.optimistic].values[i],
                 base |-> h[scen.base].values[i],
                 pessimistic |-> h[scen.pessimistic].values[i],
                 ci_lower |-> h[frame.lower].values[i],
                 ci_upper |-> h[frame.upper].values[i]]]]

---------------------------------------------------------------------------
(* The arguments a call is made with *)

SeqsUpTo(S, n) == UNION {[1..k -> S] : k \in 0..n}

\* sequences without repetition
DistinctSeqs(S, n) ==
    {s \in SeqsUpTo(S, n) : \A i, j \in 1..Len(s) : s[i] = s[j] => i = j}

HistYears == {2021, 2024}
HistValues == {-2, 0, 2, 4}
ForecastYears == {2024 + i : i \in 1..MaxForecast}
SchedYears == {2026, 2030}
EventNames == {"E1", "E2"}
DefaultWidth == Rat(1, 5)
Widths == {DefaultWidth, Rat(1, 4)}

HistRows == [year : HistYears, value : HistValues]

\* historical tables with both columns, and tables that lack one of them
FullTables ==
    {[columns |-> {"year", "value"}, rows |-> r] : r \in SeqsUpTo(HistRows, MaxHist)}
LackingTables ==
    {[columns |-> {c}, rows |-> r] : c \in {"year", "value"}, r \in SeqsUpTo(HistRows, 1)}

\* the table of a rising trend
TrendTable ==
    [columns |-> {"year", "value"},
     rows |-> <<[year |-> 2021, value |-> 2], [year |-> 2024, value |-> 4]>>]

\* forecast_years: a list of distinct years
ForecastLists == DistinctSeqs(ForecastYears, MaxForecast)

\* the effect of each event: "E1" raises the indicator by 3/2, "E2" lowers
\* it by 1/2
ImpactOf(e) == IF e = "E1" THEN Rat(3, 2) ELSE Rat(-1, 2)

\* event_impacts: a dict of some of the events, in insertion order
ImpactDicts ==
    {[i \in 1..Len(names) |-> [event |-> names[i], impact |-> ImpactOf(names[i])]] :
        names \in DistinctSeqs(EventNames, Cardinality(EventNames))}

\* event_schedule: a dict from some event names to lists of years
ScheduleDicts ==
    UNION {[K -> SeqsUpTo(SchedYears, MaxSched)] : K \in SUBSET EventNames}

EmptyDict == [e \in {} |-> <<>>]

\* the arguments of one call
Arguments(df, years, impacts, schedule, log_trend, width) ==
    [historical_df |-> df, year_col |-> "year", value_col |-> "value",
     forecast_years |-> years, event_impacts |-> impacts, event_schedule |-> schedule,
     log_trend |-> log_trend, uncertainty_width |-> width]

\* no event (as the dashboard calls), or one event scheduled once
FewEvents ==
    {[impacts |-> <<>>, schedule |-> EmptyDict],
     [impacts |-> <<[event |-> "E1", impact |-> ImpactOf("E1")]>>,
      schedule |-> [e \in {"E1"} |-> <<2026>>]]}

\* the access forecast of tests/test_forecasting.py: five observations,
\* three forecast years, two events, linear trend, width 0.15 (the value
\* column, access_rate there, is the column "value" of the tables here)
HistoricalAccess ==
    [columns |-> {"year", "value"},
     rows |-> <<[year |-> 2011, value |-> 22], [year |-> 2014, value |-> 26],
                [year |-> 2017, value |-> 35], [year |-> 2021, value |-> 46],
                [year |-> 2024, value |-> 49]>>]

AccessForecastCall ==
    Arguments(HistoricalAccess, <<2025, 2026, 2027>>,
              <<[event |-> "Digital Payment Policy Expansion 2025", impact |-> Rat(3, 2)],
                [event |-> "4G Tower Deployment 2025", impact |-> Rat(1, 2)]>>,
              [e \in {"Digital Payment Policy Expansion 2025", "4G Tower Deployment 2025"} |->
                    IF e = "4G Tower Deployment 2025" THEN <<2026, 2027>>
                    ELSE <<2025, 2026, 2027>>],
              FALSE, Rat(3, 20))

---------------------------------------------------------------------------
(* run_forecast_pipeline, one action per statement *)

NoError == [type |-> "none", at |-> "none"]

Init ==
    /\ pc = "idle"
    /\ args = None
    /\ trend_model = None
    /\ heap = <<>>
    /\ baseline = 0
    /\ with_events = 0
    /\ scenarios = None
    /\ ci = None
    /\ forecast_table = None
    /\ error = NoError
    /\ calls = <<>>
    /\ ed_pc = [at |-> "idle", i |-> 0]
    /\ ed_given = None
    /\ data = [columns |-> {}, rows |-> <<>>]
    /\ impact_links = [columns |-> {}, rows |-> <<>>]
    /\ ed_error = None
    /\ enrichment_log = <<>>
    /\ max_id = [obs |-> 0, event |-> 0, impact |-> 0]
    /\ da_pc = "idle"
    /\ da_call = None
    /\ da_result = None
    /\ sim_pc = [at |-> "idle", i |-> 0]
    /\ sim_args = None
    /\ results = <<>>

\* a caller invokes run_forecast_pipeline(...): with any historical table and
\* few events, or with any events on the rising trend table at the default
\* width, or as the access forecast of the tests does
Call ==
    /\ pc = "idle"
    /\ \/ \E df \in FullTables \cup LackingTables, years \in ForecastLists,
               ev \in FewEvents, log_trend \in BOOLEAN, width \in Widths :
                args' = Arguments(df, years, ev.impacts, ev.schedule, log_trend, width)
       \/ \E years \in ForecastLists, impacts \in ImpactDicts,
               schedule \in ScheduleDicts, log_trend \in BOOLEAN :
                args' = Arguments(TrendTable, years, impacts, schedule, log_trend,
                                  DefaultWidth)
       \/ args' = AccessForecastCall
    /\ pc' = "fit"
    /\ UNCHANGED <<trend_model, heap, baseline, with_events, scenarios, ci,
                   forecast_table, error>>

\* a fit that takes the logarithm in place, in the caller's table
\* (historical_df[value_col] = np.log(historical_df[value_col]))
FitTrend_LogsInPlace ==
    /\ pc = "fit"
    /\ LET r == fit_trend_model(args.historical_df, args.year_col, args.value_col,
                                args.log_trend)
           rows == args.historical_df.rows
       IN  IF r.exc = "none"
           THEN /\ trend_model' = r.model
                /\ pc' = "forecast"
                /\ error' = error
                /\ args' = IF args.log_trend
                           THEN [args EXCEPT !.historical_df.rows =
                                    [i \in 1..Len(rows) |->
                                        [year |-> rows[i].year,
                                         value |-> Log2(rows[i].value)]]]
                           ELSE args
           ELSE /\ trend_model' = trend_model
                /\ pc' = "raised"
                /\ error' = [type |-> r.exc, at |-> "fit_trend_model"]
                /\ args' = args
    /\ UNCHANGED <<heap, baseline, with_events, scenarios, ci, forecast_table>>

\* trend_model = fit_trend_model(historical_df, year_col, value_col, log_trend)
FitTrend ==
    /\ pc = "fit"
    /\ LET r == fit_trend_model(args.historical_df, args.year_col, args.value_col,
                                args.log_trend)
       IN  IF r.exc = "none"
           THEN /\ trend_model' = r.model
                /\ pc' = "forecast"
                /\ error' = error
           ELSE /\ trend_model' = trend_model
                /\ pc' = "raised"
                /\ error' = [type |-> r.exc, at |-> "fit_trend_model"]
    /\ UNCHANGED <<args, heap, baseline, with_events, scenarios, ci, forecast_table>>

\* baseline = forecast_trend(trend_model, forecast_years, log_trend)
ForecastTrend ==
    /\ pc = "forecast"
    /\ LET r == forecast_trend(trend_model, args.forecast_years, args.log_trend)
       IN  IF r.exc = "none"
           THEN /\ heap' = Append(heap, r.series)
                /\ baseline' = Len(heap) + 1
                /\ pc' = "apply"
                /\ error' = error
           ELSE /\ heap' = heap
                /\ baseline' = baseline
                /\ pc' = "raised"
                /\ error' = [type |-> r.exc, at |-> "forecast_trend"]
    /\ UNCHANGED <<args, trend_model, with_events, scenarios, ci, forecast_table>>

\* with_events = apply_event_impacts(baseline, event_impacts, event_schedule, 1.0)
ApplyEventImpacts ==
    /\ pc = "apply"
    /\ LET r == apply_event_impacts(heap, baseline, args.event_impacts,
                                    args.event_schedule, One)
       IN  /\ heap' = r.heap
           /\ IF r.exc = "none"
              THEN /\ with_events' = r.ref
                   /\ pc' = "scenarios"
                   /\ error' = error
              ELSE /\ with_events' = with_events
                   /\ pc' = "raised"
                   /\ error' = [type |-> r.exc, at |-> "apply_event_impacts"]
    /\ UNCHANGED <<args, trend_model, baseline, scenarios, ci, forecast_table>>

\* scenarios = build_scenarios(baseline, with_events)
BuildScenarios ==
    /\ pc = "scenarios"
    /\ LET r == build_scenarios(heap, baseline, with_events)
       IN  /\ heap' = r.heap
           /\ scenarios' = r.dict
    /\ pc' = "ci"
    /\ UNCHANGED <<args, trend_model, baseline, with_events, ci, forecast_table, error>>

\* the interval computed on the baseline instead of the base scenario
ComputeCI_OnBaseline ==
    /\ pc = "ci"
    /\ LET r == compute_confidence_intervals(heap, baseline, args.uncertainty_width)
       IN  /\ heap' = r.heap
           /\ ci' = r.frame
    /\ pc' = "assemble"
    /\ UNCHANGED <<args, trend_model, baseline, with_events, scenarios, forecast_table,
                   error>>

\* ci = compute_confidence_intervals(scenarios["base"], uncertainty_width)
ComputeCI ==
    /\ pc = "ci"
    /\ LET r == compute_confidence_intervals(heap, scenarios.base, args.uncertainty_width)
       IN  /\ heap' = r.heap
           /\ ci' = r.frame
    /\ pc' = "assemble"
    /\ UNCHANGED <<args, trend_model, baseline, with_events, scenarios, forecast_table,
                   error>>

\* forecast_table = pd.DataFrame({...}); return forecast_table
Assemble ==
    /\ pc = "assemble"
    /\ forecast_table' = AssembleTable(heap, args.forecast_years, baseline, with_events,
                                       scenarios, ci)
    /\ pc' = "returned"
    /\ UNCHANGED <<args, trend_model, heap, baseline, with_events, scenarios, ci, error>>

\* the call is over (returned or raised); its locals are dropped and the
\* caller may call again
Finish ==
    /\ pc \in {"returned", "raised"}
    /\ pc' = "idle"
    /\ args' = None
    /\ trend_model' = None
    /\ heap' = <<>>
    /\ baseline' = 0
    /\ with_events' = 0
    /\ scenarios' = None
    /\ ci' = None
    /\ forecast_table' = None
    /\ error' = NoError

\* one call after another, the caller keeping no record of them
Next ==
    \/ Call /\ UNCHANGED <<calls, enrichVars, analysisVars, impactVars>>
    \/ FitTrend /\ UNCHANGED <<calls, enrichVars, analysisVars, impactVars>>
    \/ ForecastTrend /\ UNCHANGED <<calls, enrichVars, analysisVars, impactVars>>
    \/ ApplyEventImpacts /\ UNCHANGED <<calls, enrichVars, analysisVars, impactVars>>
    \/ BuildScenarios /\ UNCHANGED <<calls, enrichVars, analysisVars, impactVars>>
    \/ ComputeCI /\ UNCHANGED <<calls, enrichVars, analysisVars, impactVars>>
    \/ Assemble /\ UNCHANGED <<calls, enrichVars, analysisVars, impactVars>>
    \/ Finish /\ UNCHANGED <<calls, enrichVars, analysisVars, impactVars>>

Spec == Init /\ [][Next]_vars

---------------------------------------------------------------------------
(* A caller that calls run_forecast_pipeline several times and keeps what *)
(* each call was given and what it gave back (the dashboard's loop over   *)
(* the indicators).  The argument objects belong to the caller and live   *)
(* on between the calls.                                                  *)

MaxCalls == 3       \* calls one caller makes

\* a second indicator: a falling series
FallingTable ==
    [columns |-> {"year", "value"},
     rows |-> <<[year |-> 2021, value |-> 4], [year |-> 2024, value |-> 2]>>]

\* the trend flag and the width of a call of the caller
TrendAndWidth ==
    {[log_trend |-> FALSE, width |-> DefaultWidth],
     [log_trend |-> TRUE, width |-> DefaultWidth],
     [log_trend |-> FALSE, width |-> Rat(1, 4)]}

Pending == [pc |-> "running", table |-> None, error |-> NoError]

\* the caller calls with objects of its own, or with the objects an earlier
\* call was given, as that call left them
CallLogged ==
    /\ pc = "idle"
    /\ Len(calls) < MaxCalls
    /\ \/ \E df \in {TrendTable, FallingTable}, ev \in FewEvents, tw \in TrendAndWidth :
                args' = Arguments(df, <<2026, 2025>>, ev.impacts, ev.schedule,
                                  tw.log_trend, tw.width)
       \/ \E i \in 1..Len(calls) : args' = calls[i].left
    /\ calls' = Append(calls, [args |-> args', left |-> args', outcome |-> Pending])
    /\ pc' = "fit"
    /\ UNCHANGED <<trend_model, heap, baseline, with_events, scenarios, ci,
                   forecast_table, error>>

\* the call is over: the caller keeps the table or the exception, and the
\* argument objects as the call left them
FinishLogged ==
    /\ Finish
    /\ calls' = [calls EXCEPT ![Len(calls)] =
                    [args |-> @.args, left |-> args,
                     outcome |-> [pc |-> pc, table |-> forecast_table, error |-> error]]]

NextCalls ==
    \/ CallLogged /\ UNCHANGED <<enrichVars, analysisVars, impactVars>>
    \/ FitTrend /\ UNCHANGED <<calls, enrichVars, analysisVars, impactVars>>
    \/ ForecastTrend /\ UNCHANGED <<calls, enrichVars, analysisVars, impactVars>>
    \/ ApplyEventImpacts /\ UNCHANGED <<calls, enrichVars, analysisVars, impactVars>>
    \/ BuildScenarios /\ UNCHANGED <<calls, enrichVars, analysisVars, impactVars>>
    \/ ComputeCI /\ UNCHANGED <<calls, enrichVars, analysisVars, impactVars>>
    \/ Assemble /\ UNCHANGED <<calls, enrichVars, analysisVars, impactVars>>
    \/ FinishLogged /\ UNCHANGED <<enrichVars, analysisVars, impactVars>>

SpecCalls == Init /\ [][NextCalls]_vars

---------------------------------------------------------------------------
(* Vocabulary of the properties *)

InCall == pc # "idle"
Returned == pc = "returned"
Raised == pc = "raised"

\* apply_event_impacts has returned
Adjusted == pc \in {"scenarios", "ci", "assemble", "returned"}

HistRowsOf == args.historical_df.rows
HasColumns == {args.year_col, args.value_col} \subseteq args.historical_df.columns
DistinctHistYears == {HistRowsOf[i].year : i \in 1..Len(HistRowsOf)}
NonPositiveValue == \E i \in 1..Len(HistRowsOf) : HistRowsOf[i].value <= 0

\* a historical table a trend can be fitted on: it has the year and the value
\* column and at least 2 distinct years, and its values are all positive when
\* the trend is fitted on their logarithms
ValidHistorical ==
    /\ HasColumns
    /\ Cardinality(DistinctHistYears) >= 2
    /\ args.log_trend => ~NonPositiveValue

ColumnNames ==
    {"year", "baseline", "with_events", "optimistic", "base", "pessimistic",
     "ci_lower", "ci_upper"}

TableRows == forecast_table.rows
RowIds == 1..Len(TableRows)

\* the table has one row per forecast year, in the order of forecast_years,
\* and the eight columns
TableFollowsForecastYears ==
    /\ Len(TableRows) = Len(args.forecast_years)
    /\ \A i \in RowIds : TableRows[i].year = args.forecast_years[i]
    /\ {forecast_table.columns[i] : i \in 1..Len(forecast_table.columns)} = ColumnNames
    /\ \A i \in RowIds : DOMAIN TableRows[i] = ColumnNames

Occurrences(years, y) == Cardinality({i \in 1..Len(years) : years[i] = y})

\* the events of event_impacts that list year y in their schedule entry
EventsOn(y) ==
    {j \in 1..Len(args.event_impacts) :
        Occurrences(ScheduleGet(args.event_schedule, args.event_impacts[j].event), y) > 0}

\* effect * m summed once per event that has y among its scheduled years
EffectPerEvent(y, m) ==
    RSum([j \in 1..Len(args.event_impacts) |->
            IF j \in EventsOn(y) THEN RMul(args.event_impacts[j].impact, m) ELSE Zero])

\* effect * m summed once per listing of y in an event's schedule entry
EffectPerListing(y, m) ==
    RSum([j \in 1..Len(args.event_impacts) |->
            RMul(RInt(Occurrences(ScheduleGet(args.event_schedule,
                                              args.event_impacts[j].event), y)),
                 RMul(args.event_impacts[j].impact, m))])

\* the years some event of event_impacts is scheduled on
ScheduledYears ==
    UNION {{ScheduleGet(args.event_schedule, args.event_impacts[j].event)[i] :
              i \in 1..Len(ScheduleGet(args.event_schedule, args.event_impacts[j].event))} :
           j \in 1..Len(args.event_impacts)}

ForecastYearSet == {args.forecast_years[i] : i \in 1..Len(args.forecast_years)}

\* the trend-only forecast of the call
TrendOnly == forecast_trend(trend_model, args.forecast_years, args.log_trend).series

---------------------------------------------------------------------------
(* C1 *)

\* C1 (as stated): for every historical table with at least 2 distinct years
\* and every forecast_years list, the call returns a table with
\* len(forecast_years) rows, the year column equal to forecast_years in order,
\* and the eight columns.
C1_AnyForecastYears ==
    (InCall /\ ValidHistorical) =>
        /\ ~Raised
        /\ Returned => TableFollowsForecastYears

\* C1 (amended): for every historical table that has the year and the value
\* column and at least 2 distinct years, with only positive values when
\* log_trend is set, and every non-empty forecast_years list, the call does
\* not raise and returns a table with len(forecast_years) rows, the year
\* column equal to forecast_years in order, and the eight columns; for such a
\* table and an empty forecast_years list the call never returns: the trend is
\* fitted, forecast_trend raises ValueError and no table is built.
C1_RowsFollowForecastYears ==
    /\ (InCall /\ ValidHistorical /\ args.forecast_years # <<>>) =>
         /\ ~Raised
         /\ Returned => TableFollowsForecastYears
    /\ (InCall /\ ValidHistorical /\ args.forecast_years = <<>>) =>
         /\ pc \in {"fit", "forecast", "raised"}
         /\ forecast_table = None
         /\ Raised => error = [type |-> "ValueError", at |-> "forecast_trend"]

\* a table returned for two forecast years given in descending order
C1_Witness ==
    /\ Returned /\ ValidHistorical
    /\ Len(args.forecast_years) >= 2
    /\ args.forecast_years[1] > args.forecast_years[2]
    /\ TableRows[1].year > TableRows[2].year

---------------------------------------------------------------------------
(* C2 *)

\* C2 (as stated): the adjusted value of each baseline year y is baseline[y]
\* plus the sum, over every event that has y among its scheduled years, of
\* effect * m (here m = 1.0, the multiplier the pipeline passes).
C2_AdditivePerEvent ==
    Adjusted =>
        \A i \in 1..Len(heap[baseline].index) :
            heap[with_events].values[i] =
                NAdd(heap[baseline].values[i],
                     NumOfRat(EffectPerEvent(heap[baseline].index[i], One)))

---------------------------------------------------------------------------
(* C3 *)

\* C3: in every returned row, optimistic - baseline = 1.2 * (with_events -
\* baseline) and pessimistic - baseline = 0.7 * (with_events - baseline).
C3_ScenarioDeltas ==
    Returned =>
        \A i \in RowIds :
            LET r == TableRows[i]
                delta == NSub(r.with_events, r.baseline)
            IN  /\ NSub(r.optimistic, r.baseline) = NScale(Rat(12, 10), delta)
                /\ NSub(r.pessimistic, r.baseline) = NScale(Rat(7, 10), delta)

\* a returned row with an event delta, whose three scenarios differ
C3_Witness ==
    /\ Returned
    /\ \E i \in RowIds :
        /\ TableRows[i].with_events # TableRows[i].baseline
        /\ TableRows[i].optimistic # TableRows[i].pessimistic
        /\ TableRows[i].optimistic # TableRows[i].with_events

---------------------------------------------------------------------------
(* C4 *)

\* C4: in every returned row, base equals with_events exactly.
C4_BaseIsWithEvents ==
    Returned => \A i \in RowIds : TableRows[i].base = TableRows[i].with_events

\* a returned row whose base scenario carries an event effect
C4_Witness ==
    /\ Returned
    /\ \E i \in RowIds :
        /\ TableRows[i].base # TableRows[i].baseline
        /\ TableRows[i].year \in ScheduledYears

---------------------------------------------------------------------------
(* C5 *)

\* the base column of the returned table, as a Series
BaseColumn ==
    [index |-> args.forecast_years, values |-> [i \in RowIds |-> TableRows[i].base]]

\* C5: in every returned row ci_lower = base * (1 - w) and ci_upper = base *
\* (1 + w) for the width w of the call, and compute_confidence_intervals on the
\* returned base column with the same w gives the ci_lower and ci_upper columns
\* again.
C5_IntervalOnBase ==
    Returned =>
        /\ \A i \in RowIds :
            /\ TableRows[i].ci_lower =
                  NScale(RSub(One, args.uncertainty_width), TableRows[i].base)
            /\ TableRows[i].ci_upper =
                  NScale(RAdd(One, args.uncertainty_width), TableRows[i].base)
        /\ LET again == compute_confidence_intervals(<<BaseColumn>>, 1,
                                                     args.uncertainty_width)
           IN  /\ again.heap[again.frame.lower].values =
                      [i \in RowIds |-> TableRows[i].ci_lower]
               /\ again.heap[again.frame.upper].values =
                      [i \in RowIds |-> TableRows[i].ci_upper]

\* a returned row whose base differs from its baseline, with a proper interval
C5_Witness ==
    /\ Returned
    /\ \E i \in RowIds :
        /\ TableRows[i].base # TableRows[i].baseline
        /\ TableRows[i].ci_lower # TableRows[i].ci_upper
        /\ TableRows[i].ci_lower # TableRows[i].base

---------------------------------------------------------------------------
(* C6 *)

\* C6: a scheduled year that is not a baseline year raises no error and
\* changes no value: the adjusted Series has the baseline's years, a year no
\* event is scheduled on keeps its baseline value, and a year that is
\* scheduled receives the effects listed for it.
C6_MissingYearsIgnored ==
    /\ Raised => error.at # "apply_event_impacts"
    /\ Adjusted =>
        /\ heap[with_events].index = heap[baseline].index
        /\ ScheduledYears \cap ForecastYearSet = {} =>
              heap[with_events].values = heap[baseline].values
        /\ \A i \in 1..Len(heap[baseline].index) :
            LET y == heap[baseline].index[i]
            IN  /\ y \notin ScheduledYears =>
                      heap[with_events].values[i] = heap[baseline].values[i]
                /\ y \in ScheduledYears =>
                      heap[with_events].values[i] =
                          NAdd(heap[baseline].values[i],
                               NumOfRat(EffectPerListing(y, One)))

\* an event scheduled on a forecast year and on a year outside the forecast:
\* the first is adjusted, another forecast year is not
C6_Witness ==
    /\ Adjusted
    /\ ScheduledYears \ ForecastYearSet # {}
    /\ \E i, j \in 1..Len(heap[baseline].index) :
        /\ heap[baseline].index[i] \in ScheduledYears
        /\ heap[with_events].values[i] # heap[baseline].values[i]
        /\ heap[baseline].index[j] \notin ScheduledYears
        /\ heap[with_events].values[j] = heap[baseline].values[j]

---------------------------------------------------------------------------
(* C7 *)

\* C7: apply_event_impacts returns a new Series and leaves the baseline
\* unchanged: from its return to the return of the pipeline the baseline is
\* the trend-only forecast, also in the baseline column of the table.
C7_BaselineNotMutated ==
    /\ Adjusted =>
        /\ with_events # baseline
        /\ heap[baseline] = TrendOnly
    /\ Returned => \A i \in RowIds : TableRows[i].baseline = TrendOnly.values[i]

\* events have changed the adjusted Series
C7_Witness ==
    /\ Adjusted
    /\ heap[with_events] # heap[baseline]
    /\ heap[baseline] = TrendOnly

---------------------------------------------------------------------------
(* C8 *)

\* C8 (as stated): a call with a historical table of fewer than 2 distinct
\* years returns no forecast table.
C8_FewYearsFail ==
    (InCall /\ HasColumns /\ Cardinality(DistinctHistYears) < 2) => ~Returned

---------------------------------------------------------------------------
(* C9 *)

\* step 1 fails: a named column is missing, or the table has no rows
Step1Fails == InCall /\ (~HasColumns \/ HistRowsOf = <<>>)

\* C9: when step 1 fails for a missing column or an empty table, the call
\* raises from fit_trend_model and no later step has produced anything.
C9_NoPartialResult ==
    Step1Fails =>
        /\ pc \in {"fit", "raised"}
        /\ Raised =>
            /\ error.at = "fit_trend_model"
            /\ error.type = (IF HasColumns THEN "ValueError" ELSE "KeyError")
        /\ trend_model = None
        /\ heap = <<>>
        /\ baseline = 0
        /\ with_events = 0
        /\ scenarios = None
        /\ ci = None
        /\ forecast_table = None

\* a call that raised KeyError for a missing column
C9_Witness ==
    /\ Raised /\ Step1Fails
    /\ error = [type |-> "KeyError", at |-> "fit_trend_model"]
    /\ forecast_table = None

---------------------------------------------------------------------------
(* C10 *)

\* C10: with log_trend true and a zero or negative historical value the call
\* raises ValueError from fit_trend_model; no baseline and no table exist.
C10_NonPositiveLogFails ==
    (InCall /\ HasColumns /\ args.log_trend /\ NonPositiveValue) =>
        /\ pc \in {"fit", "raised"}
        /\ Raised => error = [type |-> "ValueError", at |-> "fit_trend_model"]
        /\ baseline = 0
        /\ forecast_table = None

\* a log-trend call on a zero and a positive value that raised
C10_Witness ==
    /\ Raised /\ HasColumns /\ args.log_trend
    /\ \E i, j \in 1..Len(HistRowsOf) :
        /\ HistRowsOf[i].value = 0
        /\ HistRowsOf[j].value > 0
        /\ HistRowsOf[i].year # HistRowsOf[j].year

---------------------------------------------------------------------------
(* C11: calls do not influence one another *)

Finished(i) == calls[i].outcome.pc \in {"returned", "raised"}
FinishedCalls == {i \in 1..Len(calls) : Finished(i)}

\* C11: run_forecast_pipeline keeps no state between calls.  Whatever calls
\* came before, two calls given identical arguments end alike (the same
\* table, row by row, or the same exception), and a call leaves the
\* argument objects of its caller as it was given them, so that passing
\* them again is passing identical arguments.
C11_CallsAreIndependent ==
    /\ \A i, j \in FinishedCalls :
            calls[i].args = calls[j].args => calls[i].outcome = calls[j].outcome
    /\ \A i \in FinishedCalls : calls[i].left = calls[i].args

\* three calls are over: a log-trend call with an event, then two calls with
\* the same arguments, different from the first, which returned a table
C11_Witness ==
    /\ Len(calls) = 3
    /\ FinishedCalls = {1, 2, 3}
    /\ calls[1].args.log_trend
    /\ calls[1].args.event_impacts # <<>>
    /\ calls[1].args # calls[2].args
    /\ calls[2].args = calls[3].args
    /\ calls[2].args.event_impacts # <<>>
    /\ calls[3].outcome.pc = "returned"
    /\ calls[3].outcome.table # None

---------------------------------------------------------------------------
(* C12 *)

\* C12: when no event reaches a forecast year (event_impacts is empty, or
\* no event of it is scheduled on a forecast year), every row of the
\* returned table has with_events, optimistic, base and pessimistic equal
\* to its baseline.
C12_NoEventRowsEqualBaseline ==
    (Returned /\ ScheduledYears \cap ForecastYearSet = {}) =>
        \A i \in RowIds :
            /\ TableRows[i].with_events = TableRows[i].baseline
            /\ TableRows[i].optimistic = TableRows[i].baseline
            /\ TableRows[i].base = TableRows[i].baseline
            /\ TableRows[i].pessimistic = TableRows[i].baseline

\* a table is returned for two events, one without a schedule entry and
\* one scheduled only on a year that is not forecast
C12_Witness ==
    /\ Returned
    /\ Len(args.event_impacts) = 2
    /\ \E j \in 1..2 : args.event_impacts[j].event \notin DOMAIN args.event_schedule
    /\ ScheduledYears # {}
    /\ ScheduledYears \cap ForecastYearSet = {}
    /\ Len(TableRows) = 2
    /\ \A i \in RowIds : TableRows[i].optimistic = TableRows[i].baseline

---------------------------------------------------------------------------
(* C13 *)

\* the sum of the integers of a sequence
RECURSIVE SumInt(_)
SumInt(s) == IF s = <<>> THEN 0 ELSE Head(s) + SumInt(Tail(s))

\* the slope of the least-squares line of the points (x[i], v[i]),
\* sum(x-mx)(v-mv) / sum(x-mx)^2, multiplied out:
\* (n*sum(xv) - sum(x)*sum(v)) / (n*sum(x^2) - sum(x)^2)
OlsSlope(x, v) ==
    LET n == Len(x)
        sx == SumInt(x)
        sv == SumInt(v)
    IN  Rat(n * SumInt([i \in 1..n |-> x[i] * v[i]]) - sx * sv,
            n * SumInt([i \in 1..n |-> x[i] * x[i]]) - sx * sx)

\* the intercept mv - a*mx for the slope a
OlsIntercept(x, v, a) ==
    RSub(Rat(SumInt(v), Len(x)), RMul(a, Rat(SumInt(x), Len(x))))

\* the baseline values of the call: the Series forecast_trend has just
\* returned, or the baseline column of the returned table
BaselineValues ==
    IF Returned THEN [i \in RowIds |-> TableRows[i].baseline]
    ELSE heap[baseline].values

\* C13: with log_trend false (and at least 2 distinct historical years, for
\* which the line is defined) the baseline of forecast year y is a*y + b for
\* the least-squares slope a and intercept b of the historical (year, value)
\* pairs; the fitted line satisfies the normal equations; and for the
\* observations 2011: 22, 2014: 26, 2017: 35, 2021: 46, 2024: 49 the
\* baselines of 2025, 2026 and 2027 are the points 14389/273, 30007/546 and
\* 5206/91 of the line a = 1229/546, b = -351421/78.
C13_BaselineOnOlsLine ==
    (pc \in {"apply", "returned"} /\ ~args.log_trend
        /\ Cardinality(DistinctHistYears) >= 2) =>
        LET x == [i \in 1..Len(HistRowsOf) |-> HistRowsOf[i].year]
            v == [i \in 1..Len(HistRowsOf) |-> HistRowsOf[i].value]
            a == OlsSlope(x, v)
            b == OlsIntercept(x, v, a)
            residual == [i \in 1..Len(x) |->
                            RSub(RInt(v[i]), RAdd(RMul(a, RInt(x[i])), b))]
            values == BaselineValues
        IN  /\ Len(values) = Len(args.forecast_years)
            /\ \A i \in 1..Len(args.forecast_years) :
                    values[i] = NumOfRat(RAdd(RMul(a, RInt(args.forecast_years[i])), b))
            /\ RSum(residual) = Zero
            /\ RSum([i \in 1..Len(x) |-> RMul(RInt(x[i]), residual[i])]) = Zero
            /\ args.historical_df = HistoricalAccess =>
                    /\ a = Rat(1229, 546)
                    /\ b = Rat(-351421, 78)
                    /\ args.forecast_years = <<2025, 2026, 2027>>
                    /\ values = <<NumOfRat(Rat(14389, 273)), NumOfRat(Rat(30007, 546)),
                                  NumOfRat(Rat(5206, 91))>>

\* the access forecast of the tests has returned, its baseline column
\* rising by the slope from year to year
C13_Witness ==
    /\ Returned
    /\ args = AccessForecastCall
    /\ Len(TableRows) = 3
    /\ TableRows[1].baseline = NumOfRat(Rat(14389, 273))
    /\ TableRows[2].baseline = NAdd(TableRows[1].baseline, NumOfRat(Rat(1229, 546)))
    /\ TableRows[3].baseline = NAdd(TableRows[2].baseline, NumOfRat(Rat(1229, 546)))

---------------------------------------------------------------------------
(* C14 *)

\* compute_confidence_intervals has returned
IntervalComputed == pc \in {"assemble", "returned"}

\* C14: for the width w > 0 of the call, compute_confidence_intervals gives
\* lower > upper for a forecast value below 0, lower < upper for a value
\* above 0, and lower = upper = 0 for the value 0.
C14_IntervalSideFollowsSign ==
    (IntervalComputed /\ RLt(Zero, args.uncertainty_width)) =>
        \A i \in 1..Len(heap[scenarios.base].values) :
            LET v == heap[scenarios.base].values[i]
                lower == heap[ci.lower].values[i]
                upper == heap[ci.upper].values[i]
            IN  /\ NSign(v) < 0 => NLt(upper, lower)
                /\ NSign(v) > 0 => NLt(lower, upper)
                /\ NSign(v) = 0 => lower = NumOfRat(Zero) /\ upper = NumOfRat(Zero)

\* a returned table with a row below 0, whose interval is inverted, and a
\* row above or at 0
C14_Witness ==
    /\ Returned
    /\ RLt(Zero, args.uncertainty_width)
    /\ \E i, j \in RowIds :
        /\ NSign(TableRows[i].base) < 0
        /\ NLt(TableRows[i].ci_upper, TableRows[i].ci_lower)
        /\ NSign(TableRows[j].base) >= 0
        /\ NLe(TableRows[j].ci_lower, TableRows[j].ci_upper)

---------------------------------------------------------------------------
(* C15 *)

\* the sum of the effects of the events in S, each taken once
EffectOfEach(S) ==
    RSum([j \in 1..Len(args.event_impacts) |->
            IF j \in S THEN args.event_impacts[j].impact ELSE Zero])

\* C15 (as stated): the schedule of an event is a set of years, so the
\* effect of an event is added to a forecast year at most once however the
\* schedule lists it: the adjustment of year y is the sum of the effects of
\* some of the events scheduled on y, each taken once.
C15_EffectAtMostOncePerYear ==
    Adjusted =>
        \A i \in 1..Len(heap[baseline].index) :
            \E S \in SUBSET EventsOn(heap[baseline].index[i]) :
                heap[with_events].values[i] =
                    NAdd(heap[baseline].values[i], NumOfRat(EffectOfEach(S)))

---------------------------------------------------------------------------
(* C16 *)

\* C16 (as stated): every row of a returned table has
\* pessimistic <= base <= optimistic, whatever the net effect of the events
\* on its year (positive, zero or negative).
C16_ScenariosOrdered ==
    Returned =>
        \A i \in RowIds :
            /\ NLe(TableRows[i].pessimistic, TableRows[i].base)
            /\ NLe(TableRows[i].base, TableRows[i].optimistic)

---------------------------------------------------------------------------
(* C20 *)

\* build_scenarios has returned
ScenariosBuilt == pc \in {"ci", "assemble", "returned"}

\* the Series apply_event_impacts returns for the baseline and the events
\* of the call, run again with scenario_multiplier m
ReRun(m) ==
    LET r == apply_event_impacts(<<heap[baseline]>>, 1, args.event_impacts,
                                 args.event_schedule, m)
    IN  r.heap[r.ref]

\* C20: the optimistic Series of build_scenarios is, year by year, the
\* Series apply_event_impacts gives for the same baseline, impacts and
\* schedule with scenario_multiplier 1.2, and the pessimistic Series the
\* one it gives with 0.7 (in exact arithmetic).
C20_ScalingEqualsReRun ==
    ScenariosBuilt =>
        /\ heap[scenarios.optimistic] = ReRun(OptimisticFactor)
        /\ heap[scenarios.pessimistic] = ReRun(PessimisticFactor)

\* scenarios built for two events on one forecast year, one of them listed
\* twice, with a net effect that moves the optimistic Series off the base
C20_Witness ==
    /\ ScenariosBuilt
    /\ Len(args.event_impacts) = 2
    /\ \E i \in 1..Len(heap[baseline].index) :
        LET y == heap[baseline].index[i]
        IN  /\ EventsOn(y) = {1, 2}
            /\ \E j \in 1..2 :
                  Occurrences(ScheduleGet(args.event_schedule,
                                          args.event_impacts[j].event), y) = 2
            /\ heap[scenarios.optimistic].values[i] # heap[scenarios.base].values[i]
            /\ heap[scenarios.pessimistic].values[i] # heap[scenarios.base].values[i]

---------------------------------------------------------------------------
(* enrich_data of src/src/data_explore.py.  A table is the sequence of its *)
(* rows; a row is a record of the columns that matter for the record ids   *)
(* and the counts (record_id, record_type, and the key columns of the      *)
(* appended records); a record_id string PREFIX_digits is kept as its      *)
(* prefix and its digit characters, so that formatting and parsing are     *)
(* visible.                                                                *)

MaxRows == 2        \* rows of the data table passed to enrich_data
MaxLinks == 1       \* rows of the impact_links table passed to enrich_data
MaxEnrichCalls == 2 \* calls of enrich_data in a chain, each on the output of the last

RecordId(prefix, digits) == [prefix |-> prefix, digits |-> digits]

\* the digits of f"{n}" for n >= 0: decimal, no leading zeros
RECURSIVE Digits(_)
Digits(n) == IF n < 10 THEN <<n>> ELSE Append(Digits(n \div 10), n % 10)

\* int(float(digits)) of a run of digit characters
RECURSIVE ParseInt(_)
ParseInt(d) ==
    IF d = <<>> THEN 0 ELSE 10 * ParseInt(SubSeq(d, 1, Len(d) - 1)) + d[Len(d)]

Max(S) == CHOOSE x \in S : \A y \in S : y <= x

\* a DataFrame: its column names and its rows in order; a row is a record of
\* its cells that are present (a cell of another column is NaN)
DataFrame(columns, rows) == [columns |-> columns, rows |-> rows]

\* df.empty: no rows or no columns
Empty(df) == df.rows = <<>> \/ df.columns = {}

\* df[df['record_type'] == record_type], for a df with that column
OfType(df, record_type) ==
    DataFrame(df.columns,
              SelectSeq(df.rows, LAMBDA r : /\ "record_type" \in DOMAIN r
                                            /\ r.record_type = record_type))

\* pd.concat([df, pd.DataFrame([record])], ignore_index=True)
Concat(df, record) == DataFrame(df.columns \cup DOMAIN record, Append(df.rows, record))

KeyError(key) == [type |-> "KeyError", key |-> key]

\* the exception get_max_id(df, prefix) raises, None when it returns: for a
\* table that is not empty, df['record_id'] raises KeyError without that column
get_max_id_error(df) ==
    IF ~Empty(df) /\ "record_id" \notin df.columns THEN KeyError("record_id") ELSE None

\* get_max_id when it returns: 0 for an empty table; else the largest number
\* that str.extract(PREFIX_(\d+)) finds in the record_id column, 0 if it finds
\* none
get_max_id(df, prefix) ==
    IF Empty(df) THEN 0
    ELSE LET numeric_ids ==
                {ParseInt(df.rows[i].record_id.digits) :
                    i \in {j \in 1..Len(df.rows) :
                              /\ "record_id" \in DOMAIN df.rows[j]
                              /\ df.rows[j].record_id.prefix = prefix
                              /\ df.rows[j].record_id.digits # <<>>}}
         IN  IF numeric_ids = {} THEN 0 ELSE Max(numeric_ids)

\* new_observations, by indicator_code
NewObservations ==
    <<"ACC_GENDER", "ACC_URBAN_RURAL", "ACC_DIGID", "USG_MM_USERS", "USG_INTERNET",
      "ACC_ATM", "ACC_AGENT", "ACC_4G_COV">>

\* new_events, by event_name
NewEvents ==
    <<"Digital Payment Policy Expansion 2025", "4G Tower Deployment 2025",
      "Regulatory Reform on Mobile Money 2025", "Major Bank Partnership with EthioPay",
      "NFIS Strategy Update 2026">>

\* a dict display {k1: v1, ...}: the keys in the order of their first
\* occurrence, each with the value of its last occurrence
RECURSIVE DictLiteral(_)
DictLiteral(pairs) ==
    IF pairs = <<>> THEN <<>>
    ELSE LET rest == DictLiteral(SubSeq(pairs, 1, Len(pairs) - 1))
             last == pairs[Len(pairs)]
         IN  IF \E i \in 1..Len(rest) : rest[i].key = last.key
             THEN [i \in 1..Len(rest) |-> IF rest[i].key = last.key THEN last ELSE rest[i]]
             ELSE Append(rest, last)

Ind(ind_code, pillar) == [ind_code |-> ind_code, pillar |-> pillar]

\* a dict whose last two keys are both EVT_{max_event_id}
event_to_indicators_SameKey(max_event_id) ==
    DictLiteral(
        <<[key |-> RecordId("EVT", Digits(max_event_id - 4)),
           value |-> <<Ind("ACC_OWNERSHIP", "ACCESS"), Ind("USG_MM_USERS", "USAGE")>>],
          [key |-> RecordId("EVT", Digits(max_event_id - 3)),
           value |-> <<Ind("ACC_4G_COV", "Infrastructure")>>],
          [key |-> RecordId("EVT", Digits(max_event_id - 2)),
           value |-> <<Ind("USG_MM_USERS", "USAGE")>>],
          [key |-> RecordId("EVT", Digits(max_event_id)),
           value |-> <<Ind("USG_MM_USERS", "USAGE")>>],
          [key |-> RecordId("EVT", Digits(max_event_id)),
           value |-> <<Ind("ACC_OWNERSHIP", "ACCESS"), Ind("USG_MM_USERS", "USAGE")>>]>>)

\* event_to_indicators: the five new events, each with its indicators
event_to_indicators(max_event_id) ==
    DictLiteral(
        <<[key |-> RecordId("EVT", Digits(max_event_id - 4)),
           value |-> <<Ind("ACC_OWNERSHIP", "ACCESS"), Ind("USG_MM_USERS", "USAGE")>>],
          [key |-> RecordId("EVT", Digits(max_event_id - 3)),
           value |-> <<Ind("ACC_4G_COV", "Infrastructure")>>],
          [key |-> RecordId("EVT", Digits(max_event_id - 2)),
           value |-> <<Ind("USG_MM_USERS", "USAGE")>>],
          [key |-> RecordId("EVT", Digits(max_event_id - 1)),
           value |-> <<Ind("USG_MM_USERS", "USAGE")>>],
          [key |-> RecordId("EVT", Digits(max_event_id)),
           value |-> <<Ind("ACC_OWNERSHIP", "ACCESS"), Ind("USG_MM_USERS", "USAGE")>>]>>)

\* the (ev_id, ind_code, pillar) triples in the order the two nested loops
\* over event_to_indicators.items() visit them
RECURSIVE LinkItems(_)
LinkItems(items) ==
    IF items = <<>> THEN <<>>
    ELSE [i \in 1..Len(Head(items).value) |->
            [ev_id |-> Head(items).key, ind_code |-> Head(items).value[i].ind_code,
             pillar |-> Head(items).value[i].pillar]]
         \o LinkItems(Tail(items))

\* {**record, "notes": notes}
WithNotes(record, notes) == record @@ [notes |-> notes]

\* the tables a caller passes
RecordTypes == {"observation", "event", "target"}
DataIds == {RecordId("OBS", <<2>>), RecordId("EVT", <<0, 7>>), RecordId("REC", <<1>>)}
DataRows == {[record_id |-> id, record_type |-> t] : id \in DataIds, t \in RecordTypes}
DataTables ==
    {DataFrame({"record_id", "record_type"}, rows) : rows \in SeqsUpTo(DataRows, MaxRows)}
LinkRows ==
    {[record_id |-> id, record_type |-> "impact_link",
      parent_id |-> RecordId("EVT", <<0, 7>>)] :
        id \in {RecordId("IMP", <<3>>), RecordId("REC", <<1>>)}}
LinkTables ==
    {DataFrame({"record_id", "record_type", "parent_id"}, rows) :
        rows \in SeqsUpTo(LinkRows, MaxLinks)}

\* tables that lack a column enrich_data reads: pd.DataFrame(), a data table
\* without record_type, a data table and a links table without record_id
DataTablesLacking ==
    {DataFrame({}, <<>>)}
    \cup {DataFrame({"record_id"}, rows) :
            rows \in SeqsUpTo({[record_id |-> id] : id \in DataIds}, MaxRows)}
    \cup {DataFrame({"record_type"}, rows) :
            rows \in SeqsUpTo({[record_type |-> t] : t \in RecordTypes}, MaxRows)}
LinkTablesLacking ==
    {DataFrame({}, <<>>)}
    \cup {DataFrame({"record_type", "parent_id"}, rows) :
            rows \in SeqsUpTo({[record_type |-> "impact_link",
                                parent_id |-> RecordId("EVT", <<0, 7>>)]}, MaxLinks)}

At(at, i) == [at |-> at, i |-> i]

\* enrich_data(data, impact_links) is called; enrichment_log = []
EnrichCall ==
    /\ ed_pc = At("idle", 0)
    /\ \E d \in DataTables \cup DataTablesLacking, l \in LinkTables \cup LinkTablesLacking :
        /\ ed_given' = [data |-> d, impact_links |-> l]
        /\ data' = d
        /\ impact_links' = l
    /\ enrichment_log' = <<>>
    /\ ed_pc' = At("max_ids", 0)
    /\ UNCHANGED <<max_id, ed_error>>

\* the exception of the three statements max_..._id = get_max_id(...), None
\* when they all succeed: data['record_type'] raises KeyError when data has no
\* such column, and the first get_max_id that raises ends the call
MaxIdsError(d, l) ==
    IF "record_type" \notin d.columns THEN KeyError("record_type")
    ELSE LET raised ==
                SelectSeq(<<get_max_id_error(OfType(d, "observation")),
                            get_max_id_error(OfType(d, "event")),
                            get_max_id_error(l)>>,
                          LAMBDA e : e # None)
         IN  IF raised = <<>> THEN None ELSE Head(raised)

\* max_obs_id, max_event_id, max_impact_id = get_max_id(...), or the
\* exception one of them raises
GetMaxIds ==
    /\ ed_pc = At("max_ids", 0)
    /\ IF MaxIdsError(data, impact_links) # None
       THEN /\ ed_error' = MaxIdsError(data, impact_links)
            /\ ed_pc' = At("raised", 0)
            /\ UNCHANGED max_id
       ELSE /\ max_id' = [obs |-> get_max_id(OfType(data, "observation"), "OBS"),
                          event |-> get_max_id(OfType(data, "event"), "EVT"),
                          impact |-> get_max_id(impact_links, "IMP")]
            /\ ed_pc' = At("observations", 1)
            /\ UNCHANGED ed_error
    /\ UNCHANGED <<ed_given, data, impact_links, enrichment_log>>

\* one iteration of `for obs in new_observations`
AddObservation ==
    /\ ed_pc.at = "observations"
    /\ LET n == max_id.obs + 1
           obs_record == [record_id |-> RecordId("OBS", Digits(n)),
                          record_type |-> "observation",
                          indicator_code |-> NewObservations[ed_pc.i]]
       IN  /\ max_id' = [max_id EXCEPT !.obs = n]
           /\ data' = Concat(data, obs_record)
           /\ enrichment_log' =
                Append(enrichment_log, WithNotes(obs_record, "Critical observation added."))
    /\ ed_pc' = IF ed_pc.i < Len(NewObservations) THEN At("observations", ed_pc.i + 1)
                ELSE At("events", 1)
    /\ UNCHANGED <<ed_given, impact_links, ed_error>>

\* one iteration of `for ev in new_events`
AddEvent ==
    /\ ed_pc.at = "events"
    /\ LET n == max_id.event + 1
           ev_record == [record_id |-> RecordId("EVT", Digits(n)),
                         record_type |-> "event",
                         event_name |-> NewEvents[ed_pc.i]]
       IN  /\ max_id' = [max_id EXCEPT !.event = n]
           /\ data' = Concat(data, ev_record)
           /\ enrichment_log' =
                Append(enrichment_log, WithNotes(ev_record, "Critical event added."))
    /\ ed_pc' = IF ed_pc.i < Len(NewEvents) THEN At("events", ed_pc.i + 1)
                ELSE At("links", 1)
    /\ UNCHANGED <<ed_given, impact_links, ed_error>>

\* one iteration of the inner loop of
\* `for ev_id, indicators in event_to_indicators.items()`
AddLink ==
    /\ ed_pc.at = "links"
    /\ LET items == LinkItems(event_to_indicators(max_id.event))
           n == max_id.impact + 1
           link_record == [record_id |-> RecordId("IMP", Digits(n)),
                           parent_id |-> items[ed_pc.i].ev_id,
                           record_type |-> "impact_link",
                           pillar |-> items[ed_pc.i].pillar,
                           related_indicator |-> items[ed_pc.i].ind_code]
       IN  /\ max_id' = [max_id EXCEPT !.impact = n]
           /\ impact_links' = Concat(impact_links, link_record)
           /\ enrichment_log' =
                Append(enrichment_log, WithNotes(link_record, "Critical impact link added."))
           /\ ed_pc' = IF ed_pc.i < Len(items) THEN At("links", ed_pc.i + 1)
                       ELSE At("return", 0)
    /\ UNCHANGED <<ed_given, data, ed_error>>

\* return data, impact_links, enrichment_log
EnrichReturn ==
    /\ ed_pc = At("return", 0)
    /\ ed_pc' = At("returned", 0)
    /\ UNCHANGED <<ed_given, data, impact_links, enrichment_log, max_id, ed_error>>

\* the caller has the three results or the exception; the locals are dropped
EnrichFinish ==
    /\ ed_pc \in {At("returned", 0), At("raised", 0)}
    /\ ed_pc' = At("idle", 0)
    /\ ed_given' = None
    /\ data' = [columns |-> {}, rows |-> <<>>]
    /\ impact_links' = [columns |-> {}, rows |-> <<>>]
    /\ ed_error' = None
    /\ enrichment_log' = <<>>
    /\ max_id' = [obs |-> 0, event |-> 0, impact |-> 0]

\* the caller passes the returned data and impact_links to enrich_data again;
\* every call appends Len(NewObservations) + Len(NewEvents) rows to data
EnrichAgain ==
    /\ ed_pc = At("returned", 0)
    /\ Len(data.rows) \div (Len(NewObservations) + Len(NewEvents)) < MaxEnrichCalls
    /\ ed_given' = [data |-> data, impact_links |-> impact_links]
    /\ enrichment_log' = <<>>
    /\ ed_pc' = At("max_ids", 0)
    /\ UNCHANGED <<data, impact_links, max_id, ed_error>>

NextEnrich ==
    \/ EnrichCall /\ UNCHANGED <<pipelineVars, calls, analysisVars, impactVars>>
    \/ EnrichAgain /\ UNCHANGED <<pipelineVars, calls, analysisVars, impactVars>>
    \/ GetMaxIds /\ UNCHANGED <<pipelineVars, calls, analysisVars, impactVars>>
    \/ AddObservation /\ UNCHANGED <<pipelineVars, calls, analysisVars, impactVars>>
    \/ AddEvent /\ UNCHANGED <<pipelineVars, calls, analysisVars, impactVars>>
    \/ AddLink /\ UNCHANGED <<pipelineVars, calls, analysisVars, impactVars>>
    \/ EnrichReturn /\ UNCHANGED <<pipelineVars, calls, analysisVars, impactVars>>
    \/ EnrichFinish /\ UNCHANGED <<pipelineVars, calls, analysisVars, impactVars>>

SpecEnrich == Init /\ [][NextEnrich]_vars

---------------------------------------------------------------------------
(* C17 *)

EnrichReturned == ed_pc = At("returned", 0)

\* the rows of table after its first n
Appended(table, n) == SubSeq(table, n + 1, Len(table))

\* the dict without its "notes" entry
WithoutNotes(rec) == [k \in DOMAIN rec \ {"notes"} |-> rec[k]]

EnrichRaised == ed_pc = At("raised", 0)

\* the call is past the three get_max_id statements
PastMaxIds == ed_pc.at \in {"observations", "events", "links", "return", "returned"}

\* the rows of the given data table with a record_type
GivenRowsOfType(record_type) ==
    {i \in DOMAIN ed_given.data.rows :
        /\ "record_type" \in DOMAIN ed_given.data.rows[i]
        /\ ed_given.data.rows[i].record_type = record_type}

\* the given tables have the columns enrich_data reads: data has record_type,
\* it has record_id when it has an observation or an event row, and
\* impact_links has record_id when it has a row
GivenHasColumns ==
    /\ "record_type" \in ed_given.data.columns
    /\ GivenRowsOfType("observation") \cup GivenRowsOfType("event") # {}
         => "record_id" \in ed_given.data.columns
    /\ ed_given.impact_links.rows # <<>> => "record_id" \in ed_given.impact_links.columns

\* the returned data is the rows given followed by exactly 8 observation
\* records and then 5 event records, the returned impact_links the rows given
\* followed by exactly 7 links, and the log has exactly one entry per appended
\* record (20 entries, in the order of the appending), every entry with
\* 'notes' and with 'record_type' or 'parent_id'
FixedRecordsAppended ==
    LET n == Len(ed_given.data.rows)
        l == Len(ed_given.impact_links.rows)
        added == Appended(data.rows, n) \o Appended(impact_links.rows, l)
    IN  /\ Len(data.rows) = n + 8 + 5
        /\ SubSeq(data.rows, 1, n) = ed_given.data.rows
        /\ \A i \in 1..8 : data.rows[n + i].record_type = "observation"
        /\ \A i \in 9..13 : data.rows[n + i].record_type = "event"
        /\ Len(impact_links.rows) = l + 7
        /\ SubSeq(impact_links.rows, 1, l) = ed_given.impact_links.rows
        /\ Len(enrichment_log) = 8 + 5 + 7
        /\ \A i \in 1..Len(enrichment_log) :
            /\ WithoutNotes(enrichment_log[i]) = added[i]
            /\ "notes" \in DOMAIN enrichment_log[i]
            /\ \/ "record_type" \in DOMAIN enrichment_log[i]
               \/ "parent_id" \in DOMAIN enrichment_log[i]

\* C17 (as stated): for any input data and impact_links tables enrich_data
\* returns, with the 8 observation and 5 event records appended to the data
\* given, the 7 links appended to the impact_links given, and one log entry
\* per appended record, each with 'notes' and 'record_type' or 'parent_id'.
C17_AnyTablesEnriched ==
    /\ ~EnrichRaised
    /\ EnrichReturned => FixedRecordsAppended

\* C17 (amended): for input tables that have the columns enrich_data reads
\* (record_type in data; record_id in data when it has an observation or an
\* event row, and in impact_links when it has a row) the call does not raise
\* and returns the tables and the log as stated; for any other input tables
\* it raises KeyError at the get_max_id statements, before it appends
\* anything, and returns nothing.
C17_EnrichAppendsFixedRecords ==
    /\ (PastMaxIds \/ EnrichRaised) =>
         /\ PastMaxIds <=> GivenHasColumns
         /\ EnrichRaised <=> ~GivenHasColumns
    /\ EnrichReturned => FixedRecordsAppended
    /\ EnrichRaised =>
         /\ ed_error.type = "KeyError"
         /\ ed_error.key = IF "record_type" \in ed_given.data.columns
                           THEN "record_id" ELSE "record_type"
         /\ enrichment_log = <<>>
         /\ data = ed_given.data
         /\ impact_links = ed_given.impact_links

\* enrich_data has returned for a data table with an observation and an
\* event and for a non-empty impact_links table
C17_Witness ==
    /\ EnrichReturned
    /\ Len(ed_given.data.rows) = 2
    /\ ed_given.data.rows[1].record_type = "observation"
    /\ ed_given.data.rows[2].record_type = "event"
    /\ Len(ed_given.impact_links.rows) = 1
    /\ Len(data.rows) = 15
    /\ Len(impact_links.rows) = 8
    /\ enrichment_log[20].parent_id = data.rows[15].record_id

---------------------------------------------------------------------------
(* summarize_dataset and temporal_coverage of src/src/data_analysis.py.   *)
(* A DataFrame is its set of column names and the sequence of its rows; a *)
(* cell is a value or missing (NaN / None).                               *)

MaxDfRows == 2      \* rows of the DataFrame passed to the analysis functions

Cell(v) == [na |-> FALSE, v |-> v]
NaNYear == [na |-> TRUE, v |-> 0]
NaNIndicator == [na |-> TRUE, v |-> ""]

\* the indicator names, in the order strings sort
Indicators == <<"account_ownership", "mm_usage">>

\* the position of a cell of column col among the sorted values of the
\* column; a missing value sorts last
Rank(col, cell) ==
    IF cell.na THEN 1000000
    ELSE IF col = "indicator"
         THEN CHOOSE i \in 1..Len(Indicators) : Indicators[i] = cell.v
         ELSE cell.v

\* tuple comparison of two group keys over the columns cols
KeyLt(cols, k1, k2) ==
    \E i \in 1..Len(cols) :
        /\ \A j \in 1..(i - 1) : k1[j] = k2[j]
        /\ Rank(cols[i], k1[i]) < Rank(cols[i], k2[i])

\* the keys of S in ascending order (groupby sorts the group keys)
RECURSIVE SortKeys(_, _)
SortKeys(cols, S) ==
    IF S = {} THEN <<>>
    ELSE LET first == CHOOSE k \in S : \A o \in S \ {k} : KeyLt(cols, k, o)
         IN  <<first>> \o SortKeys(cols, S \ {first})

KeyOf(row, cols) == [i \in 1..Len(cols) |-> row[cols[i]]]

\* the table with one row per group key and the size of the group
SizeTable(df, cols, keys) ==
    [columns |-> cols \o <<"count">>,
     rows |-> [g \in 1..Len(keys) |->
                [c \in {cols[i] : i \in 1..Len(cols)} \cup {"count"} |->
                    IF c = "count"
                    THEN Cardinality({r \in 1..Len(df.rows) :
                                        KeyOf(df.rows[r], cols) = keys[g]})
                    ELSE keys[g][CHOOSE i \in 1..Len(cols) : cols[i] = c].v]]]

\* a groupby that keeps the rows with a missing key (dropna=False)
groupby_size_KeepNaN(df, cols) ==
    SizeTable(df, cols,
              SortKeys(cols, {KeyOf(df.rows[r], cols) : r \in 1..Len(df.rows)}))

\* df.groupby(cols).size().reset_index(name="count"): the rows with a
\* missing value in a key column belong to no group (dropna=True)
groupby_size(df, cols) ==
    LET complete == {r \in 1..Len(df.rows) :
                        \A i \in 1..Len(cols) : ~df.rows[r][cols[i]].na}
    IN  SizeTable(df, cols, SortKeys(cols, {KeyOf(df.rows[r], cols) : r \in complete}))

\* summarize_dataset(df, col_name); groupby raises KeyError for a column
\* that is not in df
summarize_dataset(df, col_name) ==
    IF col_name \notin df.columns
    THEN [exc |-> "KeyError", table |-> None]
    ELSE [exc |-> "none", table |-> groupby_size(df, <<col_name>>)]

\* temporal_coverage(df, year_col, indicator_col)
temporal_coverage(df, year_col, indicator_col) ==
    IF year_col \notin df.columns \/ indicator_col \notin df.columns
    THEN [exc |-> "KeyError", table |-> None]
    ELSE [exc |-> "none", table |-> groupby_size(df, <<year_col, indicator_col>>)]

\* the DataFrames a caller passes: rows of a year and an indicator, either
\* of which may be missing; with all columns, or without one of the two
DfRows ==
    {[year |-> y, indicator |-> ind] :
        y \in {Cell(2011), Cell(2014), NaNYear},
        ind \in {Cell(Indicators[1]), Cell(Indicators[2]), NaNIndicator}}

DfColumns == {{"year", "indicator", "value"}, {"indicator", "value"}, {"year", "value"}}

\* the sample of tests/test_data_analysis.py
SampleDf ==
    [columns |-> {"year", "indicator", "value"},
     rows |-> <<[year |-> Cell(2011), indicator |-> Cell("account_ownership")],
                [year |-> Cell(2014), indicator |-> Cell("account_ownership")],
                [year |-> Cell(2017), indicator |-> Cell("account_ownership")]>>]

DataFrames ==
    {[columns |-> c, rows |-> r] : c \in DfColumns, r \in SeqsUpTo(DfRows, MaxDfRows)}
        \cup {SampleDf}

\* summarize_dataset(df) or summarize_dataset(df, col_name) is called
CallSummarize ==
    /\ da_pc = "idle"
    /\ \E df \in DataFrames, rest \in {<<>>, <<"indicator">>, <<"year">>} :
        da_call' = [fn |-> "summarize_dataset", args |-> <<df>> \o rest]
    /\ da_pc' = "called"
    /\ UNCHANGED da_result

\* temporal_coverage(df) or temporal_coverage(df, 'year', 'indicator') is called
CallTemporalCoverage ==
    /\ da_pc = "idle"
    /\ \E df \in DataFrames, rest \in {<<>>, <<"year", "indicator">>} :
        da_call' = [fn |-> "temporal_coverage", args |-> <<df>> \o rest]
    /\ da_pc' = "called"
    /\ UNCHANGED da_result

\* the call of summarize_dataset: col_name has no default, so a call
\* without it raises TypeError before the body runs
RunSummarize ==
    /\ da_pc = "called"
    /\ da_call.fn = "summarize_dataset"
    /\ da_result' = IF Len(da_call.args) < 2
                    THEN [exc |-> "TypeError", table |-> None]
                    ELSE summarize_dataset(da_call.args[1], da_call.args[2])
    /\ da_pc' = IF da_result'.exc = "none" THEN "returned" ELSE "raised"
    /\ UNCHANGED da_call

\* the call of temporal_coverage: year_col and indicator_col default to
\* 'year' and 'indicator'
RunTemporalCoverage ==
    /\ da_pc = "called"
    /\ da_call.fn = "temporal_coverage"
    /\ LET year_col == IF Len(da_call.args) >= 2 THEN da_call.args[2] ELSE "year"
           indicator_col == IF Len(da_call.args) >= 3 THEN da_call.args[3]
                            ELSE "indicator"
       IN  da_result' = temporal_coverage(da_call.args[1], year_col, indicator_col)
    /\ da_pc' = IF da_result'.exc = "none" THEN "returned" ELSE "raised"
    /\ UNCHANGED da_call

\* the caller has the result
AnalysisFinish ==
    /\ da_pc \in {"returned", "raised"}
    /\ da_pc' = "idle"
    /\ da_call' = None
    /\ da_result' = None

NextAnalysis ==
    \/ CallSummarize /\ UNCHANGED <<pipelineVars, calls, enrichVars, impactVars>>
    \/ CallTemporalCoverage /\ UNCHANGED <<pipelineVars, calls, enrichVars, impactVars>>
    \/ RunSummarize /\ UNCHANGED <<pipelineVars, calls, enrichVars, impactVars>>
    \/ RunTemporalCoverage /\ UNCHANGED <<pipelineVars, calls, enrichVars, impactVars>>
    \/ AnalysisFinish /\ UNCHANGED <<pipelineVars, calls, enrichVars, impactVars>>

SpecAnalysis == Init /\ [][NextAnalysis]_vars

---------------------------------------------------------------------------
(* C18 *)

\* a call of temporal_coverage is over
CoverageDone == da_pc \in {"returned", "raised"} /\ da_call.fn = "temporal_coverage"

CoverageDf == da_call.args[1]
CoverageRows == da_result.table.rows

\* the input rows that have the year y and the indicator ind
RowsWith(y, ind) ==
    {r \in 1..Len(CoverageDf.rows) :
        CoverageDf.rows[r].year = y /\ CoverageDf.rows[r].indicator = ind}

\* the input rows in which neither the year nor the indicator is missing
CompleteRows ==
    {r \in 1..Len(CoverageDf.rows) :
        ~CoverageDf.rows[r].year.na /\ ~CoverageDf.rows[r].indicator.na}

RECURSIVE SumOfCounts(_)
SumOfCounts(rows) ==
    IF rows = <<>> THEN 0 ELSE Head(rows)["count"] + SumOfCounts(Tail(rows))

HasBothColumns == {"year", "indicator"} \subseteq CoverageDf.columns

\* C18 (as stated): temporal_coverage returns one row per distinct
\* (year, indicator) pair of the input with the number of input rows that
\* have the pair, so that the years of the result are the years of the
\* input and the counts sum to the number of input rows; without the year
\* or the indicator column it raises KeyError.
C18_CoverageCountsEveryRow ==
    CoverageDone =>
        IF ~HasBothColumns
        THEN da_pc = "raised" /\ da_result.exc = "KeyError"
        ELSE /\ da_pc = "returned"
             /\ \A r \in 1..Len(CoverageDf.rows) :
                    Cardinality({g \in 1..Len(CoverageRows) :
                        /\ Cell(CoverageRows[g]["year"]) = CoverageDf.rows[r].year
                        /\ Cell(CoverageRows[g]["indicator"]) = CoverageDf.rows[r].indicator
                        /\ CoverageRows[g]["count"] =
                              Cardinality(RowsWith(CoverageDf.rows[r].year,
                                                   CoverageDf.rows[r].indicator))}) = 1
             /\ {Cell(CoverageRows[g]["year"]) : g \in 1..Len(CoverageRows)} =
                    {CoverageDf.rows[r].year : r \in 1..Len(CoverageDf.rows)}
             /\ SumOfCounts(CoverageRows) = Len(CoverageDf.rows)

\* C18 (amended): temporal_coverage returns one row per distinct
\* (year, indicator) pair of the input rows in which both values are
\* present, with the number of input rows that have the pair; the rows
\* with a missing year or indicator are left out, so the years of the
\* result are the years of the complete rows and the counts sum to the
\* number of complete rows; without the year or the indicator column it
\* raises KeyError.
C18_CoverageCountsCompleteRows ==
    CoverageDone =>
        IF ~HasBothColumns
        THEN da_pc = "raised" /\ da_result.exc = "KeyError"
        ELSE /\ da_pc = "returned"
             /\ \A r \in CompleteRows :
                    Cardinality({g \in 1..Len(CoverageRows) :
                        /\ Cell(CoverageRows[g]["year"]) = CoverageDf.rows[r].year
                        /\ Cell(CoverageRows[g]["indicator"]) = CoverageDf.rows[r].indicator
                        /\ CoverageRows[g]["count"] =
                              Cardinality(RowsWith(CoverageDf.rows[r].year,
                                                   CoverageDf.rows[r].indicator))}) = 1
             /\ \A g \in 1..Len(CoverageRows) :
                    \E r \in CompleteRows :
                        /\ Cell(CoverageRows[g]["year"]) = CoverageDf.rows[r].year
                        /\ Cell(CoverageRows[g]["indicator"]) = CoverageDf.rows[r].indicator
             /\ {Cell(CoverageRows[g]["year"]) : g \in 1..Len(CoverageRows)} =
                    {CoverageDf.rows[r].year : r \in CompleteRows}
             /\ SumOfCounts(CoverageRows) = Cardinality(CompleteRows)

\* temporal_coverage has returned for a table with a complete row and a
\* row without indicator, in another year: the result has the one row
C18_Witness ==
    /\ CoverageDone
    /\ da_pc = "returned"
    /\ Len(CoverageDf.rows) = 2
    /\ Cardinality(CompleteRows) = 1
    /\ \E r \in 1..2 :
        /\ CoverageDf.rows[r].indicator.na
        /\ ~CoverageDf.rows[r].year.na
        /\ \A g \in 1..Len(CoverageRows) :
              Cell(CoverageRows[g]["year"]) # CoverageDf.rows[r].year
    /\ Len(CoverageRows) = 1
    /\ CoverageRows[1]["count"] = 1

---------------------------------------------------------------------------
(* C19 *)

\* C19 (as stated): summarize_dataset called with the data frame alone (no
\* column name) returns a summary table whose columns include 'indicator'.
C19_SummaryWithoutColumnName ==
    (/\ da_pc \in {"returned", "raised"}
     /\ da_call.fn = "summarize_dataset"
     /\ Len(da_call.args) = 1
     /\ "indicator" \in da_call.args[1].columns) =>
        /\ da_pc = "returned"
        /\ \E i \in 1..Len(da_result.table.columns) :
              da_result.table.columns[i] = "indicator"

---------------------------------------------------------------------------
(* apply_event_impacts_over_time (src/src/event_impact_model.py).  A text  *)
(* is the sequence of its characters; a float is NaN or an exact rational. *)

MaxObs == 2       \* rows of indicators_df
MaxImpacts == 2   \* rows of impact_links_prepared

DigitChars == <<"0", "1", "2", "3", "4", "5", "6", "7", "8", "9">>

\* str(year) for year >= 0
Str(n) == LET d == Digits(n) IN [i \in 1..Len(d) |-> DigitChars[d[i] + 1]]

\* text[:4]
Str4(text) == SubSeq(text, 1, IF Len(text) < 4 THEN Len(text) ELSE 4)

\* the float nan, and a float that is a number
NaN == [nan |-> TRUE, val |-> Zero]
Float(x) == [nan |-> FALSE, val |-> x]

\* float addition: nan is absorbing
FAdd(a, b) == IF a.nan \/ b.nan THEN NaN ELSE Float(RAdd(a.val, b.val))

\* the missing event_date of a link whose event the left merge did not find
NaT == <<>>

\* pd.to_datetime(event_date).year of a 'YYYY-MM-DD' text: nan for NaT
to_datetime_year(event_date) ==
    IF event_date = NaT
    THEN [nan |-> TRUE, val |-> 0]
    ELSE [nan |-> FALSE,
          val |-> ParseInt([i \in 1..4 |->
                     CHOOSE d \in 0..9 : DigitChars[d + 1] = event_date[i]])]

\* the lag in whole years, rounded towards zero
lagged_year_Truncated(row) ==
    LET event_year == to_datetime_year(row.event_date)
        m == row.lag_months
        q == IF m < 0 THEN -((-m) \div 12) ELSE m \div 12
    IN  [nan |-> event_year.nan, val |-> event_year.val + q]

\* lagged_year = event_year + (row["lag_months"] // 12): floor division, and
\* nan when the event year is nan
lagged_year(row) ==
    LET event_year == to_datetime_year(row.event_date)
    IN  [nan |-> event_year.nan, val |-> event_year.val + (row.lag_months \div 12)]

\* indicators_df["indicator_code"].unique(): in the order of first appearance
RECURSIVE unique(_)
unique(s) ==
    IF s = <<>> THEN <<>>
    ELSE LET u == unique(SubSeq(s, 1, Len(s) - 1))
             x == s[Len(s)]
         IN  IF \E i \in 1..Len(u) : u[i] = x THEN u ELSE Append(u, x)

\* base_series.get(key, np.nan): the mean of value_numeric over the rows of
\* the indicator whose observation_date begins with key, nan without such a row
base_series_get(indicators_df, indicator, key) ==
    LET rows == SelectSeq(indicators_df,
                    LAMBDA r : r.indicator_code = indicator
                               /\ Str4(r.observation_date) = key)
    IN  IF rows = <<>> THEN NaN
        ELSE Float(RDiv(RSum([i \in 1..Len(rows) |-> RInt(rows[i].value_numeric)]),
                        RInt(Len(rows))))

\* the loop over impacts.iterrows() for one year: series[year] += row["effect"]
\* for every row whose lagged year is the year
RECURSIVE AddImpacts(_, _, _)
AddImpacts(value, impacts, year) ==
    IF impacts = <<>> THEN value
    ELSE LET row == Head(impacts)
             ly == lagged_year(row)
         IN  AddImpacts(IF ~ly.nan /\ ly.val = year
                        THEN FAdd(value, Float(RInt(row.effect)))
                        ELSE value,
                        Tail(impacts), year)

\* the body of the loop over the indicators: the series of one indicator,
\* indexed by years
SimulateSeries(indicators_df, impact_links_prepared, years, indicator) ==
    LET impacts == SelectSeq(impact_links_prepared,
                       LAMBDA r : r.indicator_code = indicator)
    IN  [i \in 1..Len(years) |->
            AddImpacts(base_series_get(indicators_df, indicator, Str(years[i])),
                       impacts, years[i])]

\* years = list(range(start_year, end_year + 1))
YearsOf(start_year, end_year) ==
    IF end_year < start_year THEN <<>>
    ELSE [i \in 1..(end_year - start_year + 1) |-> start_year + i - 1]

(* Inputs *)

IndicatorCodes == {"ACC_OWNERSHIP", "USG_MM_USERS"}

Date(y, rest) == Str(y) \o rest

\* two observations in 2015 and one in 2016
Observed ==
    { [observation_date |-> Date(2015, <<"-", "0", "6", "-", "3", "0">>), value_numeric |-> 2],
      [observation_date |-> Date(2015, <<"-", "1", "2", "-", "3", "1">>), value_numeric |-> 5],
      [observation_date |-> Date(2016, <<"-", "1", "2", "-", "3", "1">>), value_numeric |-> 4] }

ObsRows ==
    { [indicator_code |-> c, observation_date |-> o.observation_date,
       value_numeric |-> o.value_numeric] : c \in IndicatorCodes, o \in Observed }

IndicatorTables == SeqsUpTo(ObsRows, MaxObs)

\* a link lagged into 2015 by 13 months, one brought forward into 2016 by a
\* month, one lagged out of the range, one without an event
Impacts ==
    { [event_date |-> Date(2014, <<"-", "1", "1", "-", "0", "1">>), lag_months |-> 13, effect |-> 3],
      [event_date |-> Date(2017, <<"-", "0", "1", "-", "1", "5">>), lag_months |-> -1, effect |-> -2],
      [event_date |-> Date(2015, <<"-", "0", "3", "-", "0", "1">>), lag_months |-> 30, effect |-> 1],
      [event_date |-> NaT, lag_months |-> 0, effect |-> 1] }

ImpactRows ==
    { [indicator_code |-> c, event_date |-> l.event_date, lag_months |-> l.lag_months,
       effect |-> l.effect] : c \in IndicatorCodes, l \in Impacts }

ImpactTables == SeqsUpTo(ImpactRows, MaxImpacts)

SimStart == 2015
SimEnd == 2016

(* The state machine *)

SimYears == YearsOf(sim_args.start_year, sim_args.end_year)
SimIndicators ==
    unique([i \in 1..Len(sim_args.indicators_df) |->
               sim_args.indicators_df[i].indicator_code])

\* apply_event_impacts_over_time(indicators_df, impact_links_prepared,
\* start_year, end_year) is called; results = {}
SimCall ==
    /\ sim_pc = At("idle", 0)
    /\ \E d \in IndicatorTables, l \in ImpactTables :
        sim_args' = [indicators_df |-> d, impact_links_prepared |-> l,
                     start_year |-> SimStart, end_year |-> SimEnd]
    /\ results' = <<>>
    /\ sim_pc' = At("indicators", 1)

\* one pass of the loop over the indicators: results[indicator] = series
SimIndicator ==
    /\ sim_pc.at = "indicators"
    /\ sim_pc.i <= Len(SimIndicators)
    /\ LET indicator == SimIndicators[sim_pc.i]
       IN  results' = Append(results,
               [indicator |-> indicator,
                series |-> SimulateSeries(sim_args.indicators_df,
                               sim_args.impact_links_prepared, SimYears, indicator)])
    /\ sim_pc' = At("indicators", sim_pc.i + 1)
    /\ UNCHANGED sim_args

\* the loop is over: return pd.DataFrame(results)
SimReturn ==
    /\ sim_pc.at = "indicators"
    /\ sim_pc.i > Len(SimIndicators)
    /\ sim_pc' = At("returned", 0)
    /\ UNCHANGED <<sim_args, results>>

\* the caller drops the table
SimFinish ==
    /\ sim_pc = At("returned", 0)
    /\ sim_pc' = At("idle", 0)
    /\ sim_args' = None
    /\ results' = <<>>

NextImpacts ==
    \/ SimCall /\ UNCHANGED <<pipelineVars, calls, enrichVars, analysisVars>>
    \/ SimIndicator /\ UNCHANGED <<pipelineVars, calls, enrichVars, analysisVars>>
    \/ SimReturn /\ UNCHANGED <<pipelineVars, calls, enrichVars, analysisVars>>
    \/ SimFinish /\ UNCHANGED <<pipelineVars, calls, enrichVars, analysisVars>>

SpecImpacts == Init /\ [][NextImpacts]_vars

---------------------------------------------------------------------------
(* C21: the simulated value of a year is the observed mean of the year     *)
(* plus the effects of the indicator's links lagged into that year.        *)

SimReturned == sim_pc = At("returned", 0)

\* the sum of an integer-valued function over a finite set of arguments
RECURSIVE SumOver(_, _)
SumOver(S, f) ==
    IF S = {} THEN 0
    ELSE LET x == CHOOSE x \in S : TRUE IN f[x] + SumOver(S \ {x}, f)

\* the whole years of a lag: the integer q with 12q <= months < 12(q + 1)
WholeYears(months) == CHOOSE q \in -20..20 : 12 * q <= months /\ months < 12 * (q + 1)

\* the calendar year a date text begins with
YearOfDate(text) ==
    1000 * (CHOOSE d \in 0..9 : DigitChars[d + 1] = text[1])
    + 100 * (CHOOSE d \in 0..9 : DigitChars[d + 1] = text[2])
    + 10 * (CHOOSE d \in 0..9 : DigitChars[d + 1] = text[3])
    + (CHOOSE d \in 0..9 : DigitChars[d + 1] = text[4])

\* the observations of an indicator in a year, and the links of an indicator
\* whose event year plus the whole years of the lag is the year
ObservationsIn(indicator, year) ==
    { i \in DOMAIN sim_args.indicators_df :
        /\ sim_args.indicators_df[i].indicator_code = indicator
        /\ YearOfDate(sim_args.indicators_df[i].observation_date) = year }
LinksInto(indicator, year) ==
    { i \in DOMAIN sim_args.impact_links_prepared :
        LET l == sim_args.impact_links_prepared[i]
        IN  /\ l.indicator_code = indicator
            /\ l.event_date # NaT
            /\ YearOfDate(l.event_date) + WholeYears(l.lag_months) = year }

\* observed mean plus the effects of the links lagged into the year; nan when
\* the indicator has no observation in the year
ExpectedValue(indicator, year) ==
    LET obs == ObservationsIn(indicator, year)
        total == SumOver(obs, [i \in obs |-> sim_args.indicators_df[i].value_numeric])
        links == LinksInto(indicator, year)
        effects == SumOver(links, [i \in links |-> sim_args.impact_links_prepared[i].effect])
    IN  IF obs = {} THEN NaN
        ELSE Float(RAdd(Rat(total, Cardinality(obs)), RInt(effects)))

\* C21: when apply_event_impacts_over_time returns, the table has one column
\* for each indicator of indicators_df, and in it the value of each year from
\* start_year to end_year is the mean of the indicator's observations of that
\* year plus the sum of the effects of the indicator's links whose event year
\* plus floor(lag_months / 12) is that year (nan, as the mean is, when the
\* year has no observation): a link counts in the one year it is lagged into,
\* in none when that year is outside the range or the event is missing, and
\* never for another indicator.
C21_SimulatedIsMeanPlusLaggedEffects ==
    SimReturned =>
        /\ {results[k].indicator : k \in DOMAIN results}
             = {sim_args.indicators_df[i].indicator_code : i \in DOMAIN sim_args.indicators_df}
        /\ \A k, j \in DOMAIN results :
             results[k].indicator = results[j].indicator => k = j
        /\ \A k \in DOMAIN results :
             /\ Len(results[k].series) = sim_args.end_year - sim_args.start_year + 1
             /\ \A y \in sim_args.start_year..sim_args.end_year :
                  results[k].series[y - sim_args.start_year + 1]
                    = ExpectedValue(results[k].indicator, y)

\* an indicator observed twice in 2015 with a link lagged into 2015 from 2014,
\* beside a link of another indicator: 7/2 + 3 in 2015, nan in 2016
C21_Witness ==
    /\ SimReturned
    /\ \E k \in DOMAIN results :
         /\ Cardinality(ObservationsIn(results[k].indicator, 2015)) = 2
         /\ Cardinality(LinksInto(results[k].indicator, 2015)) = 1
         /\ \E i \in DOMAIN sim_args.impact_links_prepared :
              sim_args.impact_links_prepared[i].indicator_code # results[k].indicator
         /\ results[k].series[1] = Float(<<13, 2>>)
         /\ results[k].series[2] = NaN

---------------------------------------------------------------------------
(* C22: the record ids enrich_data assigns are new.                        *)

\* the ids assigned so far in the running call, in order, and the ids of the
\* two tables the call was given
AssignedIds == [i \in DOMAIN enrichment_log |-> enrichment_log[i].record_id]
IdsOf(df) ==
    {df.rows[i].record_id : i \in {j \in DOMAIN df.rows : "record_id" \in DOMAIN df.rows[j]}}
GivenIds ==
    IF ed_given = None THEN {} ELSE IdsOf(ed_given.data) \cup IdsOf(ed_given.impact_links)

\* C22: at every point of a call of enrich_data, on any tables or on the
\* output of an earlier call, the record ids assigned so far are pairwise
\* distinct and none of them is the record_id of a row of the data or the
\* impact_links table the call was given.
C22_AssignedIdsAreNew ==
    /\ \A i, j \in DOMAIN AssignedIds : AssignedIds[i] = AssignedIds[j] => i = j
    /\ \A i \in DOMAIN AssignedIds : AssignedIds[i] \notin GivenIds

=============================================================================
